---- MODULE Spec2Model ----
(***************************************************************************)
(* Portal Radiologico (app.py): flat JSON files guarded by per-file        *)
(* locks, a Flask session with an inactivity timeout, and the Dash         *)
(* callbacks that create, edit and delete exams, users and catalog         *)
(* entries and write the audit log.                                        *)
(*                                                                         *)
(* Two granularities are modelled:                                         *)
(*   - request level: every Flask route / Dash callback is one action on   *)
(*     the file contents fs, the session and the client-side stores ui;    *)
(*   - thread level: a repository operation is split into its read, its    *)
(*     lock acquisition, the write of path+".tmp", os.replace and the      *)
(*     release, on an inode-level disk.                                    *)
(***************************************************************************)
EXTENDS Integers, Sequences, FiniteSets, TLC

VARIABLES
  fs,       \* request level: path -> [exists, data], the JSON data files
  session,  \* the Flask session of the browser (a dict)
  ui,       \* the dcc.Store / modal properties held by the browser
  now,      \* datetime.utcnow(), in minutes
  op,       \* the route or callback that ran last
  resp,     \* what it answered
  ghost,    \* history: authenticated since last logout, last Excluir click
  disk,     \* thread level: directory entries and inodes of the data files
  lock,     \* thread level: holder of each threading.Lock (0 = free)
  thr       \* thread level: each request thread's position and locals

vars == <<fs, session, ui, now, op, resp, ghost, disk, lock, thr>>
reqVars == <<fs, session, ui, now, op, resp, ghost>>
thrVars == <<disk, lock, thr>>

------------------------------------------------------------------------------
(* Bounds of the model *)

\* number of audit-log entries after which no further callback is explored
MaxLogs == 2
\* largest clock value (minutes) explored
MaxTime == 32
\* number of concurrent request threads
NThreads == 2

------------------------------------------------------------------------------
(* Configuration (app.py 37-56) *)

SESSION_TIMEOUT_MIN == 30

USERS_FILE == "users.json"
EXAMS_FILE == "exams.json"
DOCTORS_FILE == "doctors.json"
EXAMTYPES_FILE == "exam_types.json"
LOGS_FILE == "logs.json"
SETTINGS_FILE == "settings.json"
MATERIALS_FILE == "materials.json"

DataFiles == {USERS_FILE, EXAMS_FILE, DOCTORS_FILE, EXAMTYPES_FILE,
              LOGS_FILE, SETTINGS_FILE, MATERIALS_FILE}

\* the lock each file's writes are passed (write_json's third argument)
LockOf(path) ==
  CASE path = USERS_FILE -> "_users_lock"
    [] path = EXAMS_FILE -> "_exams_lock"
    [] path = DOCTORS_FILE -> "_doctors_lock"
    [] path = EXAMTYPES_FILE -> "_examtypes_lock"
    [] path = LOGS_FILE -> "_logs_lock"
    [] path = SETTINGS_FILE -> "_settings_lock"
    [] path = MATERIALS_FILE -> "_materials_lock"

Locks == {LockOf(p) : p \in DataFiles}

THEMES == {"Flatly", "Lux", "Materia", "Yeti", "Morph", "Quartz", "Cyborg (escuro)"}

DEFAULT_SETTINGS ==
  [portal_name |-> "Portal Radiologico", theme |-> "Flatly",
   logo_file |-> "", logo_height_px |-> 40]

MODALIDADES == {"RX", "CT", "US", "MR", "MG", "NM"}
MATERIAL_TYPES == {"Material", "Contraste"}

------------------------------------------------------------------------------
(* Generic helpers *)

Max(S) == IF S = {} THEN 0 ELSE CHOOSE m \in S : \A x \in S : x <= m

Range(seq) == {seq[i] : i \in 1..Len(seq)}

Ids(seq) == {seq[i].id : i \in 1..Len(seq)}

\* the list filter with its comparison inverted
RemoveId_inverted(seq, id) == SelectSeq(seq, LAMBDA r : r.id = id)

\* [x for x in seq if x.id != id]
RemoveId(seq, id) == SelectSeq(seq, LAMBDA r : r.id # id)

\* next((x for x in seq if x.id == id), None); HasId tells whether it is None
HasId(seq, id) == \E i \in 1..Len(seq) : seq[i].id = id
FirstIdx(seq, id) == CHOOSE i \in 1..Len(seq) :
                        seq[i].id = id /\ \A j \in 1..(i-1) : seq[j].id # id
FindById(seq, id) == seq[FirstIdx(seq, id)]

\* dict.update(fields) on a record
Update(rec, fields) ==
  [k \in DOMAIN rec \cup DOMAIN fields |->
      IF k \in DOMAIN fields THEN fields[k] ELSE rec[k]]

\* a copy that drops no key
Without_nothing(rec, key) == rec

\* {k:v for k,v in rec.items() if k != key}
Without(rec, key) == [k \in DOMAIN rec \ {key} |-> rec[k]]

\* str.strip() and str.lower() on the strings the model feeds in
Strip(s) ==
  CASE s = " " -> ""
    [] s = " admin@local " -> "admin@local"
    [] OTHER -> s

Lower(s) ==
  CASE s = "Admin@Local" -> "admin@local"
    [] s = "ANA@LOCAL" -> "ana@local"
    [] OTHER -> s

\* werkzeug generate_password_hash / check_password_hash
generate_password_hash(pw) == <<"pbkdf2", pw>>

\* a verification that accepts every password
check_password_hash_any(h, pw) == TRUE

\* werkzeug check_password_hash
check_password_hash(h, pw) == h = <<"pbkdf2", pw>>

------------------------------------------------------------------------------
(* JSON files, request level (app.py 87-107) *)

NoFile == [exists |-> FALSE, data |-> <<>>]

read_json(files, path, default) ==
  IF ~files[path].exists THEN default ELSE files[path].data

write_json(files, path, data) ==
  [files EXCEPT ![path] = [exists |-> TRUE, data |-> data]]

read_settings(files) ==
  LET s == read_json(files, SETTINGS_FILE, DEFAULT_SETTINGS)
  IN  IF s.theme \notin THEMES THEN [s EXCEPT !.theme = "Flatly"] ELSE s

(* Repositories (app.py 210-340): each returns the new file contents *)

get_users(files) == read_json(files, USERS_FILE, [users |-> <<>>]).users
save_users(files, users) == write_json(files, USERS_FILE, [users |-> users])

list_doctors(files) == read_json(files, DOCTORS_FILE, [doctors |-> <<>>]).doctors
save_doctors(files, docs) == write_json(files, DOCTORS_FILE, [doctors |-> docs])

list_exam_types(files) ==
  read_json(files, EXAMTYPES_FILE, [exam_types |-> <<>>]).exam_types
save_exam_types(files, tps) ==
  write_json(files, EXAMTYPES_FILE, [exam_types |-> tps])

list_materials(files) ==
  read_json(files, MATERIALS_FILE, [materials |-> <<>>]).materials
save_materials(files, mats) ==
  write_json(files, MATERIALS_FILE, [materials |-> mats])

list_exams(files) == read_json(files, EXAMS_FILE, [exams |-> <<>>]).exams
save_exams(files, exms) == write_json(files, EXAMS_FILE, [exams |-> exms])

list_logs(files) == read_json(files, LOGS_FILE, [logs |-> <<>>]).logs
save_logs(files, logs) == write_json(files, LOGS_FILE, [logs |-> logs])

\* the list operations shared by the add_* / update_* / delete_* functions
NextId(seq) == Max(Ids(seq)) + 1
Added(seq, rec) == Append(seq, Update(rec, [id |-> NextId(seq)]))
Updated(seq, id, fields) ==
  [seq EXCEPT ![FirstIdx(seq, id)] = Update(seq[FirstIdx(seq, id)], fields)]

add_exam(files, record) == save_exams(files, Added(list_exams(files), record))
update_exam(files, exam_id, fields) ==
  IF HasId(list_exams(files), exam_id)
  THEN save_exams(files, Updated(list_exams(files), exam_id, fields))
  ELSE files
delete_exam(files, exam_id) ==
  IF HasId(list_exams(files), exam_id)
  THEN save_exams(files, RemoveId(list_exams(files), exam_id))
  ELSE files

add_user(files, rec) == save_users(files, Added(get_users(files), rec))
update_user(files, uid, fields) ==
  IF HasId(get_users(files), uid)
  THEN save_users(files, Updated(get_users(files), uid, fields))
  ELSE files
delete_user(files, uid) ==
  IF HasId(get_users(files), uid)
  THEN save_users(files, RemoveId(get_users(files), uid))
  ELSE files

add_doctor(files, rec) == save_doctors(files, Added(list_doctors(files), rec))
update_doctor(files, did, fields) ==
  IF HasId(list_doctors(files), did)
  THEN save_doctors(files, Updated(list_doctors(files), did, fields))
  ELSE files
delete_doctor(files, did) ==
  IF HasId(list_doctors(files), did)
  THEN save_doctors(files, RemoveId(list_doctors(files), did))
  ELSE files

add_exam_type(files, rec) ==
  save_exam_types(files, Added(list_exam_types(files), rec))
update_exam_type(files, tid, fields) ==
  IF HasId(list_exam_types(files), tid)
  THEN save_exam_types(files, Updated(list_exam_types(files), tid, fields))
  ELSE files
delete_exam_type(files, tid) ==
  IF HasId(list_exam_types(files), tid)
  THEN save_exam_types(files, RemoveId(list_exam_types(files), tid))
  ELSE files

add_material(files, rec) ==
  save_materials(files, Added(list_materials(files), rec))
update_material(files, mid, fields) ==
  IF HasId(list_materials(files), mid)
  THEN save_materials(files, Updated(list_materials(files), mid, fields))
  ELSE files
delete_material(files, mid) ==
  IF HasId(list_materials(files), mid)
  THEN save_materials(files, RemoveId(list_materials(files), mid))
  ELSE files

\* write_settings(s): read_settings, dict.update, write
write_settings(files, new) ==
  write_json(files, SETTINGS_FILE, Update(read_settings(files), new))

\* Python's None for a missing record (before/after of a log entry) and for
\* a missing string (an absent session key or form field)
None == [k \in {} |-> 0]
NoneStr == ""

log_action(files, user_email, action, entity, entity_id, before, after) ==
  LET logs == list_logs(files)
      entry == [id |-> NextId(logs),
                user |-> IF user_email = NoneStr THEN "desconhecido"
                         ELSE user_email,
                action |-> action, entity |-> entity, entity_id |-> entity_id,
                before |-> before, after |-> after]
  IN  save_logs(files, Append(logs, entry))

------------------------------------------------------------------------------
(* init_files (app.py 125-205) *)

SEED_USER ==
  [id |-> 1, nome |-> "Administrador", email |-> "admin@local",
   senha_hash |-> generate_password_hash("admin123"), perfil |-> "admin"]

\* the first two of the seeded exams (the code seeds six of the same shape)
seed_exams ==
  <<[id |-> 1, exam_id |-> "E-000", idade |-> 45,
     data_hora |-> "2025-01-01T10:00:00", user_email |-> "admin@local"],
    [id |-> 2, exam_id |-> "E-000", idade |-> 45,
     data_hora |-> "2025-01-02T08:30:00", user_email |-> "admin@local"]>>

\* the first seeded exam type and material (the code seeds thirteen and three)
seed_types ==
  <<[id |-> 1, modalidade |-> "RX", nome |-> "Torax PA/L", codigo |-> "RX001"]>>
seed_materials ==
  <<[id |-> 1, nome |-> "Gadolinio", tipo |-> "Contraste", unidade |-> "mL",
     valor_unitario |-> 2]>>

init_users(files) ==
  IF get_users(files) = <<>>
  THEN write_json(files, USERS_FILE, [users |-> <<SEED_USER>>])
  ELSE files

init_exam_types(files) ==
  IF list_exam_types(files) = <<>>
  THEN write_json(files, EXAMTYPES_FILE, [exam_types |-> seed_types])
  ELSE files

init_exams(files) ==
  IF list_exams(files) = <<>>
  THEN write_json(files, EXAMS_FILE, [exams |-> seed_exams])
  ELSE files

init_doctors(files) ==
  IF "doctors" \notin DOMAIN read_json(files, DOCTORS_FILE, [doctors |-> <<>>])
  THEN write_json(files, DOCTORS_FILE, [doctors |-> <<>>])
  ELSE files

init_logs(files) ==
  IF "logs" \notin DOMAIN read_json(files, LOGS_FILE, [logs |-> <<>>])
  THEN write_json(files, LOGS_FILE, [logs |-> <<>>])
  ELSE files

init_settings(files) ==
  IF ~files[SETTINGS_FILE].exists
  THEN write_json(files, SETTINGS_FILE, DEFAULT_SETTINGS)
  ELSE files

init_materials(files) ==
  IF list_materials(files) = <<>>
  THEN write_json(files, MATERIALS_FILE, [materials |-> seed_materials])
  ELSE files

init_files(files) ==
  init_materials(init_settings(init_logs(init_doctors(
    init_exams(init_exam_types(init_users(files)))))))

------------------------------------------------------------------------------
(* Validation helpers (app.py 343-403) *)

\* re.fullmatch(r"[^@]+@[^@]+(?:\.[^@]+)*", email): exactly one "@" with
\* something on both sides
validate_email_format(email) ==
  email \in {"admin@local", "Admin@Local", "ana@local", "ANA@LOCAL",
             "nobody@local"}

\* validate_text_input(value, field): (value or "").strip() must be non-empty
validate_text_input(value) == Strip(value) # ""

\* validate_positive_int(value, field, min_val, max_val)
validate_positive_int(value, min_val, max_val) ==
  value >= min_val /\ value <= max_val

\* datetime.fromisoformat(s) succeeds
IsoDateTimes == {"2025-01-01T10:00:00", "2025-01-02T08:30:00"}
fromisoformat_ok(s) == s \in IsoDateTimes

------------------------------------------------------------------------------
(* Session and authentication (app.py 440-531, 612-622) *)

EmptySession == [k \in {} |-> 0]

\* session.get("user_id") is truthy
HasUserId(s) == "user_id" \in DOMAIN s /\ s.user_id # 0

\* session.get("user_email")
SessionEmail(s) == IF "user_email" \in DOMAIN s THEN s.user_email ELSE NoneStr

\* the lookup comparing the e-mails as written
find_user_by_email_exact(files, email) ==
  LET e == Strip(email)
      us == get_users(files)
      hits == {i \in 1..Len(us) : us[i].email = e}
  IN  IF hits = {} THEN None ELSE us[Max({i \in hits : \A j \in hits : i <= j})]

find_user_by_email(files, email) ==
  LET e == Lower(Strip(email))
      us == get_users(files)
      hits == {i \in 1..Len(us) : Lower(us[i].email) = e}
  IN  IF hits = {} THEN None ELSE us[Max({i \in hits : \A j \in hits : i <= j})]

\* current_user(): the stored user whose id is session["user_id"], or None
current_user(files, s) ==
  IF ~HasUserId(s) THEN None
  ELSE IF HasId(get_users(files), s.user_id)
       THEN FindById(get_users(files), s.user_id)
       ELSE None

\* cu.get("email") if cu else None
EmailOf(u) == IF u = None THEN NoneStr ELSE u.email

\* not cu or cu.get("perfil") != "admin"
NotAdmin(u) == u = None \/ u.perfil # "admin"

\* datetime.fromisoformat(last) succeeds on what the application itself
\* stored: a clock reading
ParsesAsTime(last) == last \in 0..MaxTime + SESSION_TIMEOUT_MIN

\* the wrapper without its inactivity check
login_required_no_timeout(s, t) ==
  IF ~HasUserId(s)
  THEN [run |-> FALSE, to |-> "/login?next", session |-> s]
  ELSE [run |-> TRUE, to |-> "", session |-> Update(s, [last_active |-> t])]

\* the decorator's wrapper w: whether the view runs and the session after it
login_required(s, t) ==
  IF ~HasUserId(s)
  THEN [run |-> FALSE, to |-> "/login?next", session |-> s]
  ELSE IF "last_active" \in DOMAIN s /\ ~ParsesAsTime(s.last_active)
  THEN [run |-> FALSE, to |-> "/login", session |-> EmptySession]
  ELSE IF "last_active" \in DOMAIN s /\ t - s.last_active > SESSION_TIMEOUT_MIN
  THEN [run |-> FALSE, to |-> "/login", session |-> EmptySession]
  ELSE [run |-> TRUE, to |-> "", session |-> Update(s, [last_active |-> t])]

\* what a route or callback answered; rows are the exported exam ids
Answer(kind) == [kind |-> kind, rows |-> <<>>]

LoginEmails == {" admin@local ", "Admin@Local", "ana@local", "not-an-email"}
Passwords == {"admin123", "segredo1", "wrong"}

\* POST /login with the form fields email and senha
login_post(email, senha) ==
  LET e == Lower(Strip(email))
      u == find_user_by_email(fs, e)
      ok == validate_email_format(e) /\ u # None
            /\ check_password_hash(u.senha_hash, senha)
  IN  /\ op' = "login"
      /\ IF ok
         THEN /\ session' = Update(session,
                    [user_id |-> u.id, user_email |-> u.email,
                     user_name |-> u.nome, perfil |-> u.perfil,
                     last_active |-> now])
              /\ resp' = Answer("redirect_app")
              /\ ghost' = [ghost EXCEPT !.authed = TRUE]
         ELSE /\ resp' = Answer(IF validate_email_format(e)
                                THEN "invalid_credentials"
                                ELSE "invalid_email")
              /\ UNCHANGED <<session, ghost>>
      /\ UNCHANGED <<fs, ui, now, thrVars>>

login == \E email \in LoginEmails, senha \in Passwords : login_post(email, senha)

\* a logout that redirects but leaves the session as it is
logout_keeps_session ==
  /\ op' = "logout"
  /\ resp' = Answer("redirect_login")
  /\ ghost' = [ghost EXCEPT !.authed = FALSE]
  /\ UNCHANGED <<fs, session, ui, now, thrVars>>

\* GET /logout
logout ==
  /\ op' = "logout"
  /\ session' = EmptySession
  /\ resp' = Answer("redirect_login")
  /\ ghost' = [ghost EXCEPT !.authed = FALSE]
  /\ UNCHANGED <<fs, ui, now, thrVars>>

\* the clock advances
Tick ==
  \E d \in {1, SESSION_TIMEOUT_MIN} :
    /\ now + d <= MaxTime
    /\ now' = now + d
    /\ op' = "tick"
    /\ UNCHANGED <<fs, session, ui, resp, ghost, thrVars>>

------------------------------------------------------------------------------
(* CSV export (app.py 343-363, 533-598) *)

\* datetimes as minutes since 2025-01-01T00:00
MinutesPerDay == 1440

\* pd.to_datetime / datetime.fromisoformat on the stored data_hora
IsoToMinutes(iso) ==
  CASE iso = "2025-01-01T10:00:00" -> 600
    [] iso = "2025-01-02T08:30:00" -> MinutesPerDay + 510

\* parse_br_date succeeds (strptime "%d/%m/%Y"), and the day it returns
br_date_ok(dstr) == dstr \in {"01/01/2025", "02/01/2025"}
parse_br_date(dstr) ==
  CASE dstr = "01/01/2025" -> 0
    [] dstr = "02/01/2025" -> 1

\* parse_periodo_str(f"{d} a {d}"): (start of day, end of day) or (None, None)
periodo_ok(dstr) == dstr # "" /\ br_date_ok(dstr)
periodo_start(dstr) == parse_br_date(dstr) * MinutesPerDay
periodo_end_midnight(dstr) == parse_br_date(dstr) * MinutesPerDay
periodo_end(dstr) == parse_br_date(dstr) * MinutesPerDay + (MinutesPerDay - 1)

ExportRows(exams, start_str, end_str) ==
  LET keep(e) ==
        /\ (start_str # "" /\ periodo_ok(start_str))
              => IsoToMinutes(e.data_hora) >= periodo_start(start_str)
        /\ (end_str # "" /\ periodo_ok(end_str))
              => IsoToMinutes(e.data_hora) <= periodo_end(end_str)
      kept == SelectSeq(exams, keep)
  IN  [i \in 1..Len(kept) |-> kept[i].id]

ExportDates == {"", "01/01/2025", "02/01/2025", "31/02/2025"}

\* GET /export.csv?start=..&end=.. behind @login_required
export_csv_get(start_str, end_str) ==
  LET lr == login_required(session, now)
  IN  /\ op' = "export_csv"
      /\ session' = lr.session
      /\ resp' = IF lr.run
                 THEN [kind |-> "csv",
                       rows |-> ExportRows(list_exams(fs), start_str, end_str)]
                 ELSE Answer("redirect_login")
      /\ UNCHANGED <<fs, ui, now, ghost, thrVars>>

export_csv ==
  \E start_str \in ExportDates, end_str \in ExportDates :
    export_csv_get(start_str, end_str)

------------------------------------------------------------------------------
(* Exam callbacks (app.py 1328-1407, 1577-1776) *)

ExamIdTexts == {"", "E-000"}
Idades == {45, 130}
DateInputs == {"", "amanha", "2025-01-02T08:30:00"}
\* the form filled in correctly, or with one field wrong
GoodExamForm == [exam_id |-> "E-000", idade |-> 45,
                 data_dt |-> "2025-01-02T08:30:00"]
ExamForms ==
  {f \in [exam_id : ExamIdTexts, idade : Idades, data_dt : DateInputs] :
     Cardinality({k \in DOMAIN f : f[k] # GoodExamForm[k]}) <= 1}

\* the validation block shared by salvar_exame and save_edit: no feedback
\* message was collected
ExamFormValid(f) ==
  /\ validate_text_input(f.exam_id)
  /\ validate_positive_int(f.idade, 0, 120)
  /\ f.data_dt # ""

\* ids of the Editar / Excluir buttons a browser may show: one per stored
\* exam, and one of a row whose exam is gone by now
ButtonIds(exams) == Ids(exams) \cup {NextId(exams)}
Clicks == {0, 1}

\* callbacks stop being explored once the audit log is full
Budget == Len(list_logs(fs)) < MaxLogs

salvar_exame ==
  \E f \in ExamForms :
    LET u == current_user(fs, session)
        rec == [exam_id |-> Strip(f.exam_id), idade |-> f.idade,
                data_hora |-> f.data_dt, user_email |-> EmailOf(u)]
        new_id == NextId(list_exams(fs))
        after == Update(rec, [id |-> new_id])
    IN  /\ Budget
        /\ op' = "salvar_exame"
        /\ IF ~HasUserId(session)
           THEN resp' = Answer("session_expired") /\ fs' = fs
           ELSE IF ~ExamFormValid(f)
           THEN resp' = Answer("invalid") /\ fs' = fs
           ELSE IF ~fromisoformat_ok(f.data_dt)
           THEN resp' = Answer("invalid_date") /\ fs' = fs
           ELSE /\ fs' = log_action(add_exam(fs, rec), EmailOf(u),
                                    "create", "exam", new_id, None, after)
                /\ resp' = Answer("saved")
        /\ UNCHANGED <<session, ui, now, ghost, thrVars>>

open_edit_modal ==
  \/ \* edit_cancel
     /\ op' = "open_edit_modal"
     /\ ui' = [ui EXCEPT !.edit_exam_id = 0]
     /\ resp' = Answer("closed")
     /\ UNCHANGED <<fs, session, now, ghost, thrVars>>
  \/ \* an Editar button
     \E id \in ButtonIds(list_exams(fs)), n \in Clicks :
       /\ op' = "open_edit_modal"
       /\ IF n = 0 \/ ~HasId(list_exams(fs), id)
          THEN resp' = Answer("prevent_update") /\ ui' = ui
          ELSE /\ ui' = [ui EXCEPT !.edit_exam_id = id]
               /\ resp' = Answer("opened")
       /\ UNCHANGED <<fs, session, now, ghost, thrVars>>

save_edit ==
  \E f \in ExamForms :
    LET exam_id == ui.edit_exam_id
        exams == list_exams(fs)
        before == IF HasId(exams, exam_id) THEN FindById(exams, exam_id)
                  ELSE None
        updated_fields == [exam_id |-> Strip(f.exam_id), idade |-> f.idade,
                           data_hora |-> f.data_dt]
        changed == HasId(exams, exam_id)
        fs1 == update_exam(fs, exam_id, updated_fields)
        after == FindById(list_exams(fs1), exam_id)
    IN  /\ Budget
        /\ op' = "save_edit"
        /\ IF exam_id = 0
           THEN resp' = Answer("prevent_update") /\ fs' = fs /\ ui' = ui
           ELSE IF ~ExamFormValid(f)
           THEN /\ resp' = Answer("invalid") /\ fs' = fs
                /\ ui' = ui
           ELSE IF ~fromisoformat_ok(f.data_dt)
           THEN /\ resp' = Answer("invalid_date") /\ fs' = fs
                /\ ui' = ui
           ELSE IF changed
           THEN /\ fs' = log_action(fs1, SessionEmail(session), "update",
                                    "exam", exam_id, before, after)
                /\ ui' = ui
                /\ resp' = Answer("updated")
           ELSE /\ fs' = fs1
                /\ ui' = ui
                /\ resp' = Answer("nothing_applied")
        /\ UNCHANGED <<session, now, ghost, thrVars>>

open_delete_modal ==
  \/ \* delete_cancel
     /\ op' = "open_delete_modal"
     /\ ui' = [ui EXCEPT !.confirm_delete_modal = FALSE, !.delete_exam_id = 0]
     /\ ghost' = [ghost EXCEPT !.clicked = 0]
     /\ resp' = Answer("closed")
     /\ UNCHANGED <<fs, session, now, thrVars>>
  \/ \* an Excluir button
     \E id \in ButtonIds(list_exams(fs)), n \in Clicks :
       /\ op' = "open_delete_modal"
       /\ IF n = 0 \/ ~HasId(list_exams(fs), id)
          THEN resp' = Answer("prevent_update") /\ ui' = ui /\ ghost' = ghost
          ELSE /\ ui' = [ui EXCEPT !.confirm_delete_modal = TRUE,
                                   !.delete_exam_id = id]
               /\ ghost' = [ghost EXCEPT !.clicked = id]
               /\ resp' = Answer("opened")
       /\ UNCHANGED <<fs, session, now, thrVars>>

confirm_delete ==
  \E n \in Clicks :
    LET exam_id == ui.delete_exam_id
        exams == list_exams(fs)
        before == IF HasId(exams, exam_id) THEN FindById(exams, exam_id)
                  ELSE None
        ok == HasId(exams, exam_id)
        fs1 == delete_exam(fs, exam_id)
    IN  /\ Budget
        /\ op' = "confirm_delete"
        /\ IF n = 0 \/ exam_id = 0
           THEN resp' = Answer("prevent_update") /\ fs' = fs /\ ui' = ui
           ELSE /\ fs' = IF ok
                         THEN log_action(fs1, SessionEmail(session), "delete",
                                         "exam", exam_id, before, None)
                         ELSE fs1
                /\ ui' = [ui EXCEPT !.confirm_delete_modal = FALSE]
                /\ resp' = Answer(IF ok THEN "deleted" ELSE "not_deleted")
        /\ UNCHANGED <<session, now, ghost, thrVars>>

\* the service is restarted: the module is imported again and
\* init_files() runs on the files left by the previous run
restart ==
  /\ op' = "restart"
  /\ fs' = init_files(fs)
  /\ resp' = Answer("started")
  /\ UNCHANGED <<session, ui, now, ghost, thrVars>>

------------------------------------------------------------------------------
(* Gerencial callbacks (app.py 2001-2690, 2800-2846) *)

\* a length that passes every minimum
StrLen_long(s) == 8

\* len(s) of the passwords the model feeds in
StrLen(s) ==
  CASE s = "" -> 0
    [] s = "abc" -> 3
    [] OTHER -> 8

\* the body shared by criar_medico, criar_tipo_exame and criar_material:
\* admin check, validation, add_*, log_action
GerCreate(name, entity, valid, rec, rows, added) ==
  LET cu == current_user(fs, session)
      new_id == NextId(rows)
  IN  /\ Budget
      /\ op' = name
      /\ IF NotAdmin(cu)
         THEN resp' = Answer("denied") /\ fs' = fs
         ELSE IF ~valid
         THEN resp' = Answer("invalid") /\ fs' = fs
         ELSE /\ fs' = log_action(added, EmailOf(cu), "create", entity, new_id,
                                  None, Update(rec, [id |-> new_id]))
              /\ resp' = Answer("created")
      /\ UNCHANGED <<session, ui, now, ghost, thrVars>>

\* the body shared by the open_*_edit and open_*_del callbacks (all but
\* open_user_del): the cancel button clears the store, a click on a row's
\* button stores that row's id if the row still exists
GerOpen(name, store, rows) ==
  \/ /\ op' = name
     /\ ui' = [ui EXCEPT ![store] = 0]
     /\ resp' = Answer("closed")
     /\ UNCHANGED <<fs, session, now, ghost, thrVars>>
  \/ \E id \in ButtonIds(rows), n \in Clicks :
       /\ op' = name
       /\ IF n = 0 \/ ~HasId(rows, id)
          THEN resp' = Answer("prevent_update") /\ ui' = ui
          ELSE ui' = [ui EXCEPT ![store] = id] /\ resp' = Answer("opened")
       /\ UNCHANGED <<fs, session, now, ghost, thrVars>>

\* the body shared by save_doc_edit, save_ext_edit and save_material_edit
GerSaveEdit(name, store, entity, valid, rows, updated, rows_after) ==
  LET cu == current_user(fs, session)
      id == ui[store]
      ok == HasId(rows, id)
  IN  /\ Budget
      /\ op' = name
      /\ IF NotAdmin(cu) \/ id = 0
         THEN resp' = Answer("prevent_update") /\ fs' = fs
         ELSE IF ~valid
         THEN resp' = Answer("invalid") /\ fs' = fs
         ELSE IF ok
         THEN /\ fs' = log_action(updated, EmailOf(cu), "update", entity, id,
                                  FindById(rows, id), FindById(rows_after, id))
              /\ resp' = Answer("updated")
         ELSE resp' = Answer("nothing_applied") /\ fs' = updated
      /\ UNCHANGED <<session, ui, now, ghost, thrVars>>

\* the body shared by confirm_doc_del, confirm_ext_del and
\* confirm_material_del
GerConfirmDel(name, store, entity, rows, deleted) ==
  \E n \in Clicks :
    LET cu == current_user(fs, session)
        id == ui[store]
        ok == HasId(rows, id)
        before == IF ok THEN FindById(rows, id) ELSE None
    IN  /\ Budget
        /\ op' = name
        /\ IF n = 0 \/ id = 0
           THEN resp' = Answer("prevent_update") /\ fs' = fs
           ELSE /\ fs' = IF ok
                         THEN log_action(deleted, EmailOf(cu), "delete", entity,
                                         id, before, None)
                         ELSE deleted
                /\ resp' = Answer(IF ok THEN "deleted" ELSE "not_deleted")
        /\ UNCHANGED <<session, ui, now, ghost, thrVars>>

(* Users *)

GoodUserForm == [nome |-> "Ana", email |-> "ANA@LOCAL", perfil |-> "user",
                 senha |-> "segredo1"]
UserForms ==
  {f \in [nome : {"", "Ana"},
          email : {"", "ANA@LOCAL", "Admin@Local", "not-an-email"},
          perfil : {"user", "admin", "root"},
          senha : {"", "abc", "segredo1"}] :
     Cardinality({k \in DOMAIN f : f[k] # GoodUserForm[k]}) <= 1}

criar_usuario ==
  \E f \in UserForms :
    LET cu == current_user(fs, session)
        clean_email == Strip(f.email)
        valid == /\ validate_text_input(f.nome)
                 /\ validate_text_input(f.email)
                 /\ validate_email_format(clean_email)
                 /\ find_user_by_email(fs, clean_email) = None
                 /\ f.perfil \in {"admin", "user"}
                 /\ validate_text_input(f.senha)
                 /\ StrLen(Strip(f.senha)) >= 6
        feedback_msgs ==
          IF /\ validate_text_input(f.email)
             /\ validate_email_format(clean_email)
             /\ find_user_by_email(fs, clean_email) # None
          THEN <<"E-mail ja cadastrado.">> ELSE <<>>
        rec == [nome |-> Strip(f.nome), email |-> Lower(clean_email),
                senha_hash |-> generate_password_hash(Strip(f.senha)),
                perfil |-> Strip(f.perfil)]
        uid == NextId(get_users(fs))
        logged_rec == Without(Update(rec, [id |-> uid]), "senha_hash")
    IN  /\ Budget
        /\ op' = "criar_usuario"
        /\ IF NotAdmin(cu)
           THEN resp' = Answer("denied") /\ fs' = fs
           ELSE IF ~valid
           THEN resp' = [kind |-> "invalid", rows |-> feedback_msgs] /\ fs' = fs
           ELSE /\ fs' = log_action(add_user(fs, rec), EmailOf(cu), "create",
                                    "user", uid, None, logged_rec)
                /\ resp' = Answer("created")
        /\ UNCHANGED <<session, ui, now, ghost, thrVars>>

open_user_edit == GerOpen("open_user_edit", "edit_user_id", get_users(fs))

save_user_edit ==
  \E f \in UserForms :
    LET cu == current_user(fs, session)
        uid == ui.edit_user_id
        clean_email == Strip(f.email)
        existing_user == find_user_by_email(fs, clean_email)
        valid == /\ validate_text_input(f.nome)
                 /\ validate_text_input(f.email)
                 /\ validate_email_format(clean_email)
                 /\ ~(existing_user # None /\ existing_user.id # uid)
                 /\ f.perfil \in {"admin", "user"}
                 /\ ~(f.senha # "" /\ StrLen(f.senha) < 6)
        feedback_msgs ==
          IF existing_user # None /\ existing_user.id # uid
          THEN <<"E-mail ja cadastrado por outro usuario.">> ELSE <<>>
        before == FindById(get_users(fs), uid)
        fields == IF f.senha # ""
                  THEN [nome |-> Strip(f.nome), email |-> Lower(clean_email),
                        perfil |-> Strip(f.perfil),
                        senha_hash |-> generate_password_hash(f.senha)]
                  ELSE [nome |-> Strip(f.nome), email |-> Lower(clean_email),
                        perfil |-> Strip(f.perfil)]
        ok == HasId(get_users(fs), uid)
        fs1 == update_user(fs, uid, fields)
        after == FindById(get_users(fs1), uid)
    IN  /\ Budget
        /\ op' = "save_user_edit"
        /\ IF NotAdmin(cu) \/ uid = 0
           THEN resp' = Answer("prevent_update") /\ fs' = fs
           ELSE IF ~valid
           THEN resp' = [kind |-> "invalid", rows |-> feedback_msgs] /\ fs' = fs
           ELSE IF ok
           THEN /\ fs' = log_action(fs1, EmailOf(cu), "update", "user", uid,
                                    Without(before, "senha_hash"),
                                    Without(after, "senha_hash"))
                /\ resp' = Answer("updated")
           ELSE resp' = Answer("nothing_applied") /\ fs' = fs1
        /\ UNCHANGED <<session, ui, now, ghost, thrVars>>

\* the click branch reads user_id_to_edit, a name this function never binds:
\* it raises NameError and Dash updates nothing
open_user_del ==
  \/ /\ op' = "open_user_del"
     /\ ui' = [ui EXCEPT !.delete_user_id = 0]
     /\ resp' = Answer("closed")
     /\ UNCHANGED <<fs, session, now, ghost, thrVars>>
  \/ \E id \in ButtonIds(get_users(fs)), n \in Clicks :
       /\ op' = "open_user_del"
       /\ resp' = Answer(IF n = 0 THEN "prevent_update" ELSE "error")
       /\ UNCHANGED <<fs, session, ui, now, ghost, thrVars>>

\* a self-deletion test that never fires
IsOwnUser_never(cu, uid) == FALSE

\* cu and cu.get("id") == int(uid)
IsOwnUser(cu, uid) == cu # None /\ cu.id = uid

\* the dcc.Store delete_user_id is browser-side state: the request that fires
\* confirm_user_del carries whatever value the client holds for it
state_delete_user_id ==
  \E id \in ButtonIds(get_users(fs)) :
    /\ op' = "state_delete_user_id"
    /\ ui' = [ui EXCEPT !.delete_user_id = id]
    /\ resp' = Answer("stored")
    /\ UNCHANGED <<fs, session, now, ghost, thrVars>>

confirm_user_del ==
  \E n \in Clicks :
    LET cu == current_user(fs, session)
        uid == ui.delete_user_id
        ok == HasId(get_users(fs), uid)
        before == IF ok THEN FindById(get_users(fs), uid) ELSE None
        fs1 == delete_user(fs, uid)
    IN  /\ Budget
        /\ op' = "confirm_user_del"
        /\ IF n = 0 \/ uid = 0
           THEN resp' = Answer("prevent_update") /\ fs' = fs
           ELSE IF IsOwnUser(cu, uid)
           THEN resp' = Answer("own_user") /\ fs' = fs
           ELSE /\ fs' = IF ok
                         THEN log_action(fs1, EmailOf(cu), "delete", "user", uid,
                                         Without(before, "senha_hash"), None)
                         ELSE fs1
                /\ resp' = Answer(IF ok THEN "deleted" ELSE "not_deleted")
        /\ UNCHANGED <<session, ui, now, ghost, thrVars>>

(* Change of the own password (app.py 2868-2896) *)

OldPasswords == {"", "admin123", "wrong"}
NewPasswords == {"", "abc", "segredo1"}

\* the callback with its click count and the three password fields
save_new_password_post(n, pw_old, pw_new1, pw_new2) ==
  LET u == current_user(fs, session)
  IN  /\ Budget
      /\ op' = "save_new_password"
      /\ IF n = 0
         THEN resp' = Answer("prevent_update") /\ fs' = fs
         ELSE IF u = None
         THEN resp' = Answer("expired") /\ fs' = fs
         ELSE IF pw_old = "" \/ pw_new1 = "" \/ pw_new2 = ""
         THEN resp' = Answer("fill_all") /\ fs' = fs
         ELSE IF ~check_password_hash(u.senha_hash, pw_old)
         THEN resp' = Answer("wrong_password") /\ fs' = fs
         ELSE IF pw_new1 # pw_new2
         THEN resp' = Answer("mismatch") /\ fs' = fs
         ELSE IF StrLen(pw_new1) < 6
         THEN resp' = Answer("too_short") /\ fs' = fs
         ELSE /\ fs' = log_action(
                        update_user(fs, u.id,
                          [senha_hash |-> generate_password_hash(pw_new1)]),
                        u.email, "update", "user", u.id, None,
                        [password_changed |-> TRUE])
              /\ resp' = Answer("changed")
      /\ UNCHANGED <<session, ui, now, ghost, thrVars>>

save_new_password ==
  \E n \in Clicks, pw_old \in OldPasswords, pw_new1, pw_new2 \in NewPasswords :
    save_new_password_post(n, pw_old, pw_new1, pw_new2)

(* Doctors *)

DoctorForms == [nome : {"", "Dra. Maria"}, crm : {"", "CRM 123"}]
DoctorRec(f) == [nome |-> Strip(f.nome), crm |-> Strip(f.crm)]

criar_medico ==
  \E f \in DoctorForms :
    GerCreate("criar_medico", "doctor", validate_text_input(f.nome),
              DoctorRec(f), list_doctors(fs), add_doctor(fs, DoctorRec(f)))

open_doc_edit == GerOpen("open_doc_edit", "edit_doc_id", list_doctors(fs))

save_doc_edit ==
  \E f \in DoctorForms :
    LET fs1 == update_doctor(fs, ui.edit_doc_id, DoctorRec(f))
    IN  GerSaveEdit("save_doc_edit", "edit_doc_id", "doctor",
                    validate_text_input(f.nome), list_doctors(fs), fs1,
                    list_doctors(fs1))

open_doc_del == GerOpen("open_doc_del", "delete_doc_id", list_doctors(fs))

confirm_doc_del ==
  GerConfirmDel("confirm_doc_del", "delete_doc_id", "doctor", list_doctors(fs),
                delete_doctor(fs, ui.delete_doc_id))

(* Exam types *)

ExamTypeForms == [modalidade : {"", "CT", "XX"}, nome : {"", "Cranio"}]
ExamTypeValid(f) ==
  /\ validate_text_input(f.modalidade)
  /\ Strip(f.modalidade) \in MODALIDADES
  /\ validate_text_input(f.nome)
ExamTypeRec(f) == [modalidade |-> Strip(f.modalidade), nome |-> Strip(f.nome),
                   codigo |-> NoneStr]

criar_tipo_exame ==
  \E f \in ExamTypeForms :
    GerCreate("criar_tipo_exame", "exam_type", ExamTypeValid(f), ExamTypeRec(f),
              list_exam_types(fs), add_exam_type(fs, ExamTypeRec(f)))

open_ext_edit == GerOpen("open_ext_edit", "edit_ext_id", list_exam_types(fs))

save_ext_edit ==
  \E f \in ExamTypeForms :
    LET fs1 == update_exam_type(fs, ui.edit_ext_id, ExamTypeRec(f))
    IN  GerSaveEdit("save_ext_edit", "edit_ext_id", "exam_type",
                    ExamTypeValid(f), list_exam_types(fs), fs1,
                    list_exam_types(fs1))

open_ext_del == GerOpen("open_ext_del", "delete_ext_id", list_exam_types(fs))

confirm_ext_del ==
  GerConfirmDel("confirm_ext_del", "delete_ext_id", "exam_type",
                list_exam_types(fs), delete_exam_type(fs, ui.delete_ext_id))

(* Materials *)

GoodMaterialForm == [nome |-> "Luva", tipo |-> "Material", unidade |-> "par",
                     valor |-> 2]
MaterialForms ==
  {f \in [nome : {"", "Luva"}, tipo : {"Material", "Outro"},
          unidade : {"", "par"}, valor : {-1, 2}] :
     Cardinality({k \in DOMAIN f : f[k] # GoodMaterialForm[k]}) <= 1}
MaterialValid(f) ==
  /\ validate_text_input(f.nome)
  /\ validate_text_input(f.tipo)
  /\ Strip(f.tipo) \in MATERIAL_TYPES
  /\ validate_text_input(f.unidade)
  /\ f.valor >= 0
MaterialRec(f) == [nome |-> Strip(f.nome), tipo |-> Strip(f.tipo),
                   unidade |-> Strip(f.unidade), valor_unitario |-> f.valor]

criar_material ==
  \E f \in MaterialForms :
    GerCreate("criar_material", "material", MaterialValid(f), MaterialRec(f),
              list_materials(fs), add_material(fs, MaterialRec(f)))

open_material_edit ==
  GerOpen("open_material_edit", "edit_material_id", list_materials(fs))

save_material_edit ==
  \E f \in MaterialForms :
    LET fs1 == update_material(fs, ui.edit_material_id, MaterialRec(f))
    IN  GerSaveEdit("save_material_edit", "edit_material_id", "material",
                    MaterialValid(f), list_materials(fs), fs1,
                    list_materials(fs1))

open_material_del ==
  GerOpen("open_material_del", "delete_material_id", list_materials(fs))

confirm_material_del ==
  GerConfirmDel("confirm_material_del", "delete_material_id", "material",
                list_materials(fs), delete_material(fs, ui.delete_material_id))

(* Portal settings *)

SettingsForms == [portal_name : {"", "Clinica"}, theme : {"", "Lux"},
                  logo_height_px : {5, 40}]

\* save_custom with no logo uploaded (cust_logo_tmp is None)
save_custom ==
  \E f \in SettingsForms :
    LET cu == current_user(fs, session)
        s_before == read_settings(fs)
        new == [portal_name |-> IF Strip(f.portal_name) = ""
                                THEN "Portal Radiologico"
                                ELSE Strip(f.portal_name),
                theme |-> IF f.theme = "" THEN "Flatly" ELSE f.theme,
                logo_file |-> s_before.logo_file,
                logo_height_px |-> f.logo_height_px]
        fs1 == write_settings(fs, new)
    IN  /\ Budget
        /\ op' = "save_custom"
        /\ IF NotAdmin(cu)
           THEN resp' = Answer("denied") /\ fs' = fs
           ELSE IF ~validate_positive_int(f.logo_height_px, 10, 200)
           THEN resp' = Answer("invalid") /\ fs' = fs
           ELSE /\ fs' = log_action(fs1, EmailOf(cu), "update", "settings", 1,
                                    s_before, read_settings(fs1))
                /\ resp' = Answer("saved")
        /\ UNCHANGED <<session, ui, now, ghost, thrVars>>

------------------------------------------------------------------------------
(* Thread level: read_json (87-97), write_json (99-107) and the repository *)
(* operations (306-340) step by step, one request thread per operation     *)

Threads == 1..NThreads

\* the two files whose repository operations the threads run
ThreadFiles == {EXAMS_FILE, LOGS_FILE}

\* tmp = path + ".tmp", here the path itself
tmp_in_place(path) == path

\* tmp = path + ".tmp"
tmp(path) ==
  CASE path = EXAMS_FILE -> "exams.json.tmp"
    [] path = LOGS_FILE -> "logs.json.tmp"

DiskPaths == ThreadFiles \cup {tmp(q) : q \in ThreadFiles}

\* one inode per directory entry and one per file object a thread holds open
Inodes == 1..(2 * Cardinality(ThreadFiles) + NThreads)

\* a file that open(.., "w") has just truncated, or a dump that stopped
\* part-way: not a JSON document
Partial == [data |-> None, complete |-> FALSE]

Referenced(dir, th) ==
  ({dir[q] : q \in DOMAIN dir} \cup {th[t].fh : t \in DOMAIN th}) \ {0}

FreeInode(dir, th) ==
  CHOOSE i \in Inodes : /\ i \notin Referenced(dir, th)
                        /\ \A j \in 1..(i-1) : j \in Referenced(dir, th)

\* inodes with no directory entry and no open file object are released
Reclaim(d, th) ==
  [d EXCEPT !.ino = [i \in Inodes |->
                       IF i \in Referenced(d.dir, th) THEN d.ino[i]
                       ELSE Partial]]

\* what a path holds: no file, or its inode's content
NoEntry == [data |-> None, complete |-> FALSE, entry |-> FALSE]
Content(d, q) ==
  IF d.dir[q] = 0 THEN NoEntry
  ELSE [data |-> d.ino[d.dir[q]].data, complete |-> d.ino[d.dir[q]].complete,
        entry |-> TRUE]

\* os.replace(src, dst)
os_replace(dir, src, dst) ==
  [q \in DOMAIN dir |->
     IF q = dst THEN dir[src] ELSE IF q = src THEN 0 ELSE dir[q]]

\* threading.Lock: acquired whoever holds it
CanAcquire_always(locks, l) == TRUE

\* threading.Lock: acquire blocks until the lock is free
CanAcquire(locks, l) == locks[l] = 0

\* the default each list_* function passes to read_json
DefaultOf(path) ==
  IF path = EXAMS_FILE THEN [exams |-> <<>>] ELSE [logs |-> <<>>]

new_exam == [exam_id |-> "E-000", idade |-> 45,
             data_hora |-> "2025-01-02T08:30:00", user_email |-> "admin@local"]

\* the one operation each thread runs
ThreadOps ==
  {[name |-> "add_exam", path |-> EXAMS_FILE, id |-> 0, rec |-> new_exam],
   [name |-> "update_exam", path |-> EXAMS_FILE, id |-> 1,
    rec |-> [idade |-> 50]],
   [name |-> "delete_exam", path |-> EXAMS_FILE, id |-> 2, rec |-> None],
   [name |-> "log_action", path |-> LOGS_FILE, id |-> 1, rec |-> None],
   [name |-> "list_exams", path |-> EXAMS_FILE, id |-> 0, rec |-> None]}

NoOp == [name |-> "", path |-> "", id |-> 0, rec |-> None]

\* the operation run with nothing in between
Apply(files, o) ==
  CASE o.name = "add_exam" -> add_exam(files, o.rec)
    [] o.name = "update_exam" -> update_exam(files, o.id, o.rec)
    [] o.name = "delete_exam" -> delete_exam(files, o.id)
    [] o.name = "log_action" ->
         log_action(files, "admin@local", "delete", "exam", o.id, None, None)
    [] OTHER -> files

\* the list the operation read, as a one-file directory
LocalFs(path, data) ==
  [q \in DataFiles |->
     IF q = path THEN [exists |-> TRUE, data |-> data] ELSE NoFile]

\* whether the operation calls save_* on the list it read
NeedsSave(o, data) ==
  CASE o.name \in {"add_exam", "log_action"} -> TRUE
    [] o.name \in {"update_exam", "delete_exam"} -> HasId(data.exams, o.id)
    [] OTHER -> FALSE

\* the document the operation hands to write_json
NewData(o, data) == Apply(LocalFs(o.path, data), o)[o.path].data

IdleThread == [pc |-> "idle", op |-> NoOp, fh |-> 0, read |-> None,
               live |-> {}, prev |-> None, failed |-> FALSE]

\* a request thread enters its repository operation
call(t) ==
  /\ thr[t].pc = "idle"
  /\ \E o \in ThreadOps :
       thr' = [thr EXCEPT ![t] = [@ EXCEPT !.pc = "read_json_exists",
                                           !.op = o]]
  /\ UNCHANGED <<disk, lock, reqVars>>

\* read_json: os.path.exists(path)
read_json_exists(t) ==
  LET path == thr[t].op.path
  IN  /\ thr[t].pc = "read_json_exists"
      /\ thr' = [thr EXCEPT ![t] =
                   IF disk.dir[path] # 0
                   THEN [@ EXCEPT !.pc = "read_json_open",
                                  !.live = {Content(disk, path).data}]
                   ELSE [@ EXCEPT !.pc = IF NeedsSave(thr[t].op, DefaultOf(path))
                                         THEN "write_json_acquire" ELSE "done",
                                  !.read = DefaultOf(path)]]
      /\ UNCHANGED <<disk, lock, reqVars>>

\* read_json: open(path, "r")
read_json_open(t) ==
  /\ thr[t].pc = "read_json_open"
  /\ thr' = [thr EXCEPT ![t] = [@ EXCEPT !.pc = "read_json_load",
                                         !.fh = disk.dir[thr[t].op.path]]]
  /\ UNCHANGED <<disk, lock, reqVars>>

\* read_json: json.load(f) and the close of f; a file that is not a JSON
\* document (or that open did not find) gives the default
read_json_load(t) ==
  LET o == thr[t].op
      got == IF thr[t].fh # 0 /\ disk.ino[thr[t].fh].complete
             THEN disk.ino[thr[t].fh].data
             ELSE DefaultOf(o.path)
  IN  /\ thr[t].pc = "read_json_load"
      /\ thr' = [thr EXCEPT ![t] =
                   [@ EXCEPT !.pc = IF NeedsSave(o, got)
                                    THEN "write_json_acquire" ELSE "done",
                             !.fh = 0, !.read = got, !.live = {}]]
      /\ disk' = Reclaim(disk, thr')
      /\ UNCHANGED <<lock, reqVars>>

\* write_json: with lock
write_json_acquire(t) ==
  LET l == LockOf(thr[t].op.path)
  IN  /\ thr[t].pc = "write_json_acquire"
      /\ CanAcquire(lock, l)
      /\ lock' = [lock EXCEPT ![l] = t]
      /\ thr' = [thr EXCEPT ![t] =
                   [@ EXCEPT !.pc = "write_json_open",
                             !.prev = Content(disk, thr[t].op.path)]]
      /\ UNCHANGED <<disk, reqVars>>

\* write_json: open(tmp, "w") creates the file or truncates the one there
write_json_open(t) ==
  LET q == tmp(thr[t].op.path)
      i == IF disk.dir[q] # 0 THEN disk.dir[q]
           ELSE FreeInode(disk.dir, thr)
  IN  /\ thr[t].pc = "write_json_open"
      /\ thr' = [thr EXCEPT ![t] = [@ EXCEPT !.pc = "write_json_dump",
                                             !.fh = i]]
      /\ disk' = [dir |-> [disk.dir EXCEPT ![q] = i],
                  ino |-> [disk.ino EXCEPT ![i] = Partial]]
      /\ UNCHANGED <<lock, reqVars>>

\* write_json: json.dump(data, f) and the close of f; the dump either
\* completes or raises part-way (disk full, a value json cannot encode)
write_json_dump(t) ==
  /\ thr[t].pc = "write_json_dump"
  /\ \E fails \in BOOLEAN :
       /\ thr' = [thr EXCEPT ![t] =
                    [@ EXCEPT !.pc = IF fails THEN "write_json_except"
                                     ELSE "write_json_replace",
                              !.fh = 0, !.failed = fails]]
       /\ disk' = Reclaim(
            [disk EXCEPT !.ino[thr[t].fh] =
               IF fails THEN Partial
               ELSE [data |-> NewData(thr[t].op, thr[t].read),
                     complete |-> TRUE]], thr')
  /\ UNCHANGED <<lock, reqVars>>

\* write_json: os.replace(tmp, path); FileNotFoundError if tmp is gone
write_json_replace(t) ==
  LET path == thr[t].op.path
      found == disk.dir[tmp(path)] # 0
      dir1 == IF found THEN os_replace(disk.dir, tmp(path), path)
              ELSE disk.dir
      seen == [data |-> disk.ino[dir1[path]].data]
  IN  /\ thr[t].pc = "write_json_replace"
      /\ thr' = [u \in Threads |->
                   IF u = t
                   THEN [thr[u] EXCEPT !.pc = IF found THEN "write_json_release"
                                              ELSE "write_json_except",
                                       !.failed = ~found]
                   ELSE IF thr[u].live # {} /\ thr[u].op.path = path
                   THEN [thr[u] EXCEPT !.live = @ \cup {seen.data}]
                   ELSE thr[u]]
      /\ disk' = Reclaim([disk EXCEPT !.dir = dir1], thr')
      /\ UNCHANGED <<lock, reqVars>>

\* write_json: the with block is left after os.replace
write_json_release(t) ==
  /\ thr[t].pc = "write_json_release"
  /\ lock' = [lock EXCEPT ![LockOf(thr[t].op.path)] = 0]
  /\ thr' = [thr EXCEPT ![t] = [@ EXCEPT !.pc = "done", !.prev = None]]
  /\ UNCHANGED <<disk, reqVars>>

\* write_json: except Exception prints the error, then the with block is left
write_json_except(t) ==
  /\ thr[t].pc = "write_json_except"
  /\ lock' = [lock EXCEPT ![LockOf(thr[t].op.path)] = 0]
  /\ thr' = [thr EXCEPT ![t] = [@ EXCEPT !.pc = "done", !.prev = None]]
  /\ UNCHANGED <<disk, reqVars>>

------------------------------------------------------------------------------
(* Initial state: first start on an empty data directory, no session *)

InitUi == [edit_exam_id |-> 0,
           confirm_delete_modal |-> FALSE, delete_exam_id |-> 0,
           edit_user_id |-> 0, delete_user_id |-> 0,
           edit_doc_id |-> 0, delete_doc_id |-> 0,
           edit_ext_id |-> 0, delete_ext_id |-> 0,
           edit_material_id |-> 0, delete_material_id |-> 0]

\* the data directory init_files leaves on a first start
InitFs == init_files([p \in DataFiles |-> NoFile])

InitReq ==
  /\ fs = InitFs
  /\ session = EmptySession
  /\ ui = InitUi
  /\ now = 0
  /\ op = "start"
  /\ resp = Answer("started")
  /\ ghost = [authed |-> FALSE, clicked |-> 0]

\* each file of the data directory starts in an inode of its own
InitDir ==
  [q \in DiskPaths |->
     IF q = EXAMS_FILE /\ InitFs[q].exists THEN 1
     ELSE IF q = LOGS_FILE /\ InitFs[q].exists THEN 2
     ELSE 0]
InitThr ==
  /\ disk = [dir |-> InitDir,
             ino |-> [i \in Inodes |->
                        IF \E q \in ThreadFiles : InitDir[q] = i
                        THEN LET q == CHOOSE q \in ThreadFiles : InitDir[q] = i
                             IN  [data |-> InitFs[q].data, complete |-> TRUE]
                        ELSE Partial]]
  /\ lock = [l \in Locks |-> 0]
  /\ thr = [t \in Threads |-> IdleThread]

Init == InitReq /\ InitThr

Next ==
  \/ login
  \/ logout
  \/ salvar_exame
  \/ open_edit_modal
  \/ save_edit
  \/ open_delete_modal
  \/ confirm_delete
  \/ restart

Spec == Init /\ [][Next]_vars

NextUsers ==
  \/ login
  \/ logout
  \/ criar_usuario
  \/ open_user_edit
  \/ save_user_edit
  \/ open_user_del
  \/ confirm_user_del
  \/ save_custom

SpecUsers == Init /\ [][NextUsers]_vars

NextUserDel ==
  \/ login
  \/ logout
  \/ criar_usuario
  \/ state_delete_user_id
  \/ confirm_user_del

SpecUserDel == Init /\ [][NextUserDel]_vars

NextAccounts ==
  \/ login
  \/ logout
  \/ criar_usuario
  \/ open_user_edit
  \/ save_user_edit
  \/ state_delete_user_id
  \/ confirm_user_del
  \/ save_new_password

SpecAccounts == Init /\ [][NextAccounts]_vars

NextPasswords ==
  \/ login
  \/ logout
  \/ criar_usuario
  \/ open_user_edit
  \/ save_user_edit
  \/ save_new_password

SpecPasswords == Init /\ [][NextPasswords]_vars

NextDoctors ==
  \/ login
  \/ logout
  \/ criar_medico
  \/ open_doc_edit
  \/ save_doc_edit
  \/ open_doc_del
  \/ confirm_doc_del

SpecDoctors == Init /\ [][NextDoctors]_vars

NextExamTypes ==
  \/ login
  \/ logout
  \/ criar_tipo_exame
  \/ open_ext_edit
  \/ save_ext_edit
  \/ open_ext_del
  \/ confirm_ext_del

SpecExamTypes == Init /\ [][NextExamTypes]_vars

NextMaterials ==
  \/ login
  \/ logout
  \/ criar_material
  \/ open_material_edit
  \/ save_material_edit
  \/ open_material_del
  \/ confirm_material_del

SpecMaterials == Init /\ [][NextMaterials]_vars

NextThreads ==
  \E t \in Threads :
    \/ call(t)
    \/ read_json_exists(t)
    \/ read_json_open(t)
    \/ read_json_load(t)
    \/ write_json_acquire(t)
    \/ write_json_open(t)
    \/ write_json_dump(t)
    \/ write_json_replace(t)
    \/ write_json_release(t)
    \/ write_json_except(t)

SpecThreads == Init /\ [][NextThreads]_vars

NextSession ==
  \/ login
  \/ logout
  \/ Tick
  \/ export_csv

SpecSession == Init /\ [][NextSession]_vars

\* the session routes together with the exam form of the Dash page
NextIdle ==
  \/ login
  \/ logout
  \/ Tick
  \/ export_csv
  \/ salvar_exame

SpecIdle == Init /\ [][NextIdle]_vars

------------------------------------------------------------------------------
(* Properties *)

ExamCallbacks == {"salvar_exame", "save_edit", "confirm_delete"}

\* files other than the audit log
NonLogFiles == DataFiles \ {LOGS_FILE}

DataChanged == \E p \in NonLogFiles : fs'[p] # fs[p]
LogsAppended == Len(list_logs(fs')) - Len(list_logs(fs))
LastLog(files) == list_logs(files)[Len(list_logs(files))]

\* C2: salvar_exame, save_edit and confirm_delete leave the exams file
\* unchanged when the session of the request holds no user_id.
C2_ExamChangesNeedLogin ==
  [][(op' \in ExamCallbacks /\ ~HasUserId(session))
        => fs'[EXAMS_FILE] = fs[EXAMS_FILE]]_vars

GerencialCallbacks ==
  {"criar_usuario", "save_user_edit", "confirm_user_del",
   "criar_medico", "save_doc_edit", "confirm_doc_del",
   "criar_tipo_exame", "save_ext_edit", "confirm_ext_del",
   "criar_material", "save_material_edit", "confirm_material_del",
   "save_custom"}

\* the files the Gerencial tab manages
GerencialFiles ==
  {USERS_FILE, DOCTORS_FILE, EXAMTYPES_FILE, MATERIALS_FILE, SETTINGS_FILE}

\* C3: a Gerencial callback answering a request whose current user is
\* missing or is not an admin leaves users, doctors, exam types, materials
\* and settings unchanged.
C3_GerencialNeedsAdmin ==
  [][(op' \in GerencialCallbacks /\ NotAdmin(current_user(fs, session)))
        => \A p \in GerencialFiles : fs'[p] = fs[p]]_vars

\* C4: a login_required route (export_csv) runs its view only for a session
\* with a user_id whose last_active is at most SESSION_TIMEOUT_MIN old; an
\* older or unparseable last_active clears the session and redirects without
\* running the view; an accepted request sets last_active to the current
\* time and keeps the rest of the session.
C4_LoginRequiredTimeout ==
  [][op' = "export_csv" =>
       /\ resp'.kind = "csv" =>
            /\ HasUserId(session)
            /\ "last_active" \in DOMAIN session
            /\ now - session.last_active <= SESSION_TIMEOUT_MIN
            /\ session' = [session EXCEPT !.last_active = now]
       /\ (/\ HasUserId(session)
           /\ "last_active" \in DOMAIN session
           /\ (\/ ~ParsesAsTime(session.last_active)
               \/ now - session.last_active > SESSION_TIMEOUT_MIN)) =>
            /\ session' = EmptySession
            /\ resp' = Answer("redirect_login")]_vars

\* a request arrived after the timeout and was turned away: the session that
\* had logged in and never logged out is now empty
C4_Witness ==
  /\ op = "export_csv"
  /\ resp.kind = "redirect_login"
  /\ ghost.authed
  /\ session = EmptySession
  /\ now > SESSION_TIMEOUT_MIN

\* C5: /export.csv answers with exam data only if the session logged in
\* successfully and has not logged out since; a session with no user_id is
\* redirected to /login and gets no exam rows.
C5_ExportNeedsLogin ==
  [][op' = "export_csv" =>
       /\ resp'.kind = "csv" => ghost.authed
       /\ ~HasUserId(session) =>
            /\ resp' = Answer("redirect_login")
            /\ session' = session]_vars

\* an export was refused after a logout that followed a successful export
C5_Witness ==
  /\ op = "export_csv"
  /\ resp.kind = "redirect_login"
  /\ ~ghost.authed
  /\ now > 0

\* exam data was actually exported to a logged-in session
C5_WitnessExported ==
  /\ op = "export_csv"
  /\ resp.kind = "csv"
  /\ Len(resp.rows) > 0

\* C6: a callback appends an audit-log entry exactly when it changed
\* persisted data: one entry per change, carrying the acting user's e-mail,
\* and none for a rejected, failed or no-op request.
C6_LogExactlyOnChange ==
  [][op' \in ExamCallbacks =>
       /\ LogsAppended = (IF DataChanged THEN 1 ELSE 0)
       /\ (LogsAppended = 1 /\ HasUserId(session)) =>
            LastLog(fs').user = EmailOf(current_user(fs, session))]_vars

\* C7: an exam disappears only in a confirm_delete step, and then it is
\* exactly the exam whose id delete_exam_id holds, the id stored by the most
\* recent accepted click on an Excluir button; delete_cancel closes the
\* modal, clears the stored id and changes no file; a confirm with no stored
\* id changes no file.
C7_DeleteOnlyConfirmedId ==
  [][/\ Ids(list_exams(fs)) \ Ids(list_exams(fs')) # {} =>
          /\ op' = "confirm_delete"
          /\ ui.delete_exam_id # 0
          /\ ui.delete_exam_id = ghost.clicked
          /\ Ids(list_exams(fs)) \ Ids(list_exams(fs')) = {ui.delete_exam_id}
          /\ list_exams(fs') = RemoveId(list_exams(fs), ui.delete_exam_id)
     /\ (op' = "open_delete_modal" /\ resp'.kind = "closed") =>
          /\ ui'.delete_exam_id = 0
          /\ ~ui'.confirm_delete_modal
          /\ fs' = fs
     /\ (op' = "confirm_delete" /\ ui.delete_exam_id = 0) => fs' = fs]_vars

\* an exam was deleted through the modal while another one was kept
C7_Witness ==
  /\ op = "confirm_delete"
  /\ resp.kind = "deleted"
  /\ ~HasId(list_exams(fs), ui.delete_exam_id)
  /\ list_exams(fs) # <<>>

SeededFiles == {USERS_FILE, EXAMTYPES_FILE, EXAMS_FILE, MATERIALS_FILE}

\* C10: init_files leaves every existing users, exam-type, exam and material
\* file unchanged; it writes a file only when the file does not exist.
C10_InitKeepsExistingFiles ==
  [][op' = "restart" =>
       \A p \in DataFiles :
          /\ (p \in SeededFiles /\ fs[p].exists) => fs'[p] = fs[p]
          /\ fs'[p] # fs[p] => ~fs[p].exists]_vars

(* Thread-level properties *)

\* the orders in which the threads' operations can run one after the other
Perms == {f \in [Threads -> Threads] : \A a, b \in Threads : f[a] = f[b] => a = b}

RECURSIVE Serial(_, _, _)
Serial(files, f, i) ==
  IF i > NThreads THEN files
  ELSE Serial(Apply(files, thr[f[i]].op), f, i + 1)

\* a path of the disk as the request-level file it is
DiskFile(q) ==
  IF disk.dir[q] = 0 THEN NoFile
  ELSE [exists |-> TRUE, data |-> disk.ino[disk.dir[q]].data]

AllReturned == \A t \in Threads : thr[t].pc = "done" /\ ~thr[t].failed

\* C1: once every thread has run its one repository operation (no write
\* having failed), the exams and logs files hold what running the same
\* operations one after the other, in some order, would have left.
C1_NoLostUpdate ==
  AllReturned =>
    \E f \in Perms :
      \A q \in ThreadFiles : DiskFile(q) = Serial(InitFs, f, 1)[q]

\* the statements of write_json inside "with lock"
CriticalSection == {"write_json_open", "write_json_dump", "write_json_replace",
                    "write_json_release", "write_json_except"}
InCS(q) ==
  {t \in Threads : thr[t].op.path = q /\ thr[t].pc \in CriticalSection}

\* C8: for each data file at most one thread is inside write_json's
\* critical section and that thread holds the file's own lock; the file and
\* its .tmp only ever change in a step of the thread holding that lock.
C8_WritesUnderOwnLock ==
  /\ [](\A q \in ThreadFiles :
          /\ Cardinality(InCS(q)) <= 1
          /\ \A t \in InCS(q) : lock[LockOf(q)] = t)
  /\ [][\A q \in ThreadFiles :
          (\/ Content(disk', q) # Content(disk, q)
           \/ Content(disk', tmp(q)) # Content(disk, tmp(q)))
            => lock[LockOf(q)] \in InCS(q)]_vars

\* a thread is inside the critical section of a file while another thread
\* waits for the same file's lock
C8_Witness ==
  \E q \in ThreadFiles, u \in Threads :
    /\ InCS(q) # {}
    /\ thr[u].pc = "write_json_acquire"
    /\ thr[u].op.path = q

\* C9: what read_json returns for an existing file is a complete document
\* the path held at some moment since the read began (the previous content
\* or one written meanwhile); while a write_json that failed part-way is in
\* its except branch the path holds what it held when the write began.
C9_ReadsSeeWholeFiles ==
  /\ [][\A t \in Threads :
          (thr[t].pc = "read_json_load" /\ thr'[t].pc # "read_json_load")
            => thr'[t].read \in thr[t].live]_vars
  /\ [](\A t \in Threads :
          thr[t].pc = "write_json_except"
            => Content(disk, thr[t].op.path) = thr[t].prev)

\* a reader holds the file open while a writer has already replaced it
C9_Witness ==
  \E t, u \in Threads :
    /\ thr[t].pc = "read_json_load"
    /\ thr[t].fh # 0
    /\ thr[u].pc = "write_json_release"
    /\ thr[u].op.path = thr[t].op.path
    /\ disk.dir[thr[t].op.path] # thr[t].fh

(* User management properties *)

\* C11: a confirm_user_del request whose delete_user_id is the id of the
\* user logged in to the requesting session changes no file: the users file
\* keeps that user and no log entry is written.
C11_NoSelfDelete ==
  [][(/\ op' = "confirm_user_del"
      /\ HasUserId(session)
      /\ ui.delete_user_id = session.user_id)
        => fs' = fs]_vars

\* the logged-in admin confirmed the deletion of their own user and was
\* refused
C11_Witness ==
  /\ op = "confirm_user_del"
  /\ resp.kind = "own_user"
  /\ HasUserId(session)
  /\ ui.delete_user_id = session.user_id
  /\ HasId(get_users(fs), session.user_id)

\* the e-mails of the other users, compared case-insensitively
OtherEmails(us, uid) == {Lower(us[i].email) : i \in {k \in 1..Len(us) : us[k].id # uid}}

\* C12: no two users of the users file have the same e-mail up to case; a
\* criar_usuario step that changes the file appends one user whose e-mail no
\* user held, and a save_user_edit step that changes it touches only the
\* edited user and leaves them with an e-mail no other user holds (so an
\* attempt with an e-mail held by another user changes nothing).
C12_UniqueEmails ==
  /\ [](\A i, j \in 1..Len(get_users(fs)) :
          i # j => Lower(get_users(fs)[i].email) # Lower(get_users(fs)[j].email))
  /\ [][(op' = "criar_usuario" /\ fs'[USERS_FILE] # fs[USERS_FILE])
          => LET us == get_users(fs)
                 us1 == get_users(fs')
             IN  /\ Len(us1) = Len(us) + 1
                 /\ SubSeq(us1, 1, Len(us)) = us
                 /\ Lower(us1[Len(us1)].email) \notin OtherEmails(us, 0)]_vars
  /\ [][(op' = "save_user_edit" /\ fs'[USERS_FILE] # fs[USERS_FILE])
          => LET us == get_users(fs)
                 us1 == get_users(fs')
                 uid == ui.edit_user_id
             IN  /\ Len(us1) = Len(us)
                 /\ \A i \in 1..Len(us) : us[i].id # uid => us1[i] = us[i]
                 /\ Lower(FindById(us1, uid).email) \notin OtherEmails(us, uid)]_vars

\* an edit that would give a user the e-mail of another user was answered
\* with the duplicate message
C12_Witness ==
  /\ op = "save_user_edit"
  /\ resp = [kind |-> "invalid",
             rows |-> <<"E-mail ja cadastrado por outro usuario.">>]
  /\ Len(get_users(fs)) >= 2

\* C13: in every state, no entry of the audit log has a senha_hash key in
\* its before or its after snapshot.
C13_NoHashInLogs ==
  \A i \in 1..Len(list_logs(fs)) :
    /\ "senha_hash" \notin DOMAIN list_logs(fs)[i].before
    /\ "senha_hash" \notin DOMAIN list_logs(fs)[i].after

\* the log holds the update of a user who has a senha_hash in the users file
C13_Witness ==
  \E i \in 1..Len(list_logs(fs)) :
    LET l == list_logs(fs)[i]
    IN  /\ l.entity = "user"
        /\ l.action = "update"
        /\ "email" \in DOMAIN l.before
        /\ "email" \in DOMAIN l.after
        /\ HasId(get_users(fs), l.entity_id)
        /\ "senha_hash" \in DOMAIN FindById(get_users(fs), l.entity_id)

(* Login and password properties *)

\* the stored users whose e-mail is the submitted one up to case and
\* surrounding blanks and whose senha_hash is the hash of the submitted password
Verified(email, senha) ==
  {i \in 1..Len(get_users(fs)) :
     /\ Lower(get_users(fs)[i].email) = Lower(Strip(email))
     /\ get_users(fs)[i].senha_hash = generate_password_hash(senha)}

\* C14: a POST /login that changes the session or redirects to the
\* application was submitted with the e-mail (up to case) and the password of
\* a stored user, and the session then holds that user's id, e-mail, name and
\* perfil and the current time as last_active; every other attempt leaves the
\* session as it was.
C14_LoginOnlyWithCredentials ==
  [][op' = "login" =>
     \A email \in LoginEmails, senha \in Passwords :
       login_post(email, senha) =>
         IF Verified(email, senha) = {}
         THEN session' = session /\ resp'.kind # "redirect_app"
         ELSE (session' # session \/ resp'.kind = "redirect_app") =>
                \E i \in Verified(email, senha) :
                  LET u == get_users(fs)[i]
                  IN  /\ session'.user_id = u.id
                      /\ session'.user_email = u.email
                      /\ session'.user_name = u.nome
                      /\ session'.perfil = u.perfil
                      /\ session'.last_active = now]_vars

\* a user created through the Gerencial tab has logged in
C14_Witness ==
  /\ op = "login"
  /\ resp.kind = "redirect_app"
  /\ HasUserId(session)
  /\ session.user_email = "ana@local"

\* of the new passwords fed in, those with at least 6 characters
SixOrMore == NewPasswords \ {"", "abc"}

\* C15: a save_new_password request changes the users file only if it was
\* clicked by a logged-in user whose stored senha_hash is the hash of pw_old,
\* with pw_new1 = pw_new2 of at least 6 characters; the change then replaces
\* that user's senha_hash by the hash of the new password and nothing else.
C15_PasswordChangeGuarded ==
  [][op' = "save_new_password" =>
     \A n \in Clicks, pw_old \in OldPasswords, pw_new1, pw_new2 \in NewPasswords :
       save_new_password_post(n, pw_old, pw_new1, pw_new2) =>
         LET u == current_user(fs, session)
             allowed == /\ n # 0
                        /\ u # None
                        /\ u.senha_hash = generate_password_hash(pw_old)
                        /\ pw_new1 = pw_new2
                        /\ pw_new1 \in SixOrMore
         IN  IF allowed
             THEN get_users(fs') =
                    [i \in 1..Len(get_users(fs)) |->
                       IF get_users(fs)[i].id = u.id
                       THEN [get_users(fs)[i] EXCEPT
                               !.senha_hash = generate_password_hash(pw_new1)]
                       ELSE get_users(fs)[i]]
             ELSE fs'[USERS_FILE] = fs[USERS_FILE]]_vars

\* the logged-in user has replaced their password
C15_Witness ==
  /\ op = "save_new_password"
  /\ resp.kind = "changed"
  /\ current_user(fs, session) # None
  /\ current_user(fs, session).senha_hash = generate_password_hash("segredo1")

\* C16: a GET /export.csv that is served, with start=S and/or end=E given as
\* calendar dates DD/MM/YYYY, outputs exactly the exams whose data_hora d has
\* S 00:00 <= d (when S is given) and d before the day after E (when E is
\* given); with neither parameter it outputs every exam.
ValidDates == {"01/01/2025", "02/01/2025"}
InPeriod(e, S, E) ==
  /\ S # "" => IsoToMinutes(e.data_hora) >= parse_br_date(S) * MinutesPerDay
  /\ E # "" => IsoToMinutes(e.data_hora) < (parse_br_date(E) + 1) * MinutesPerDay
Idle(s, t) ==
  /\ HasUserId(s)
  /\ "last_active" \in DOMAIN s
  /\ t - s.last_active > SESSION_TIMEOUT_MIN

\* C17: a request arriving with a session idle for more than
\* SESSION_TIMEOUT_MIN minutes is not served as authenticated by any
\* operation: export_csv sends no CSV, and salvar_exame, save_edit and
\* confirm_delete change no file and do not answer "saved".
C17_IdleSessionRejected ==
  [][((op' \in ExamCallbacks \/ op' = "export_csv") /\ Idle(session, now))
        => /\ fs' = fs
           /\ resp'.kind \notin {"csv", "saved"}]_vars

====
